---- MODULE Spec2Model ----
(***************************************************************************)
(* Model of app/lib/fileIndexer.js: the incremental indexing pipeline that *)
(* scans a FileWatcher, caches per-file tag data in a lokijs collection    *)
(* and rewrites the xml index and the json status file.                    *)
(*                                                                         *)
(* Every await and every setImmediate of the source is a step boundary:    *)
(* between two steps of the pipeline the watcher, the disk, the clock and  *)
(* the public operation wipe() may act.                                    *)
(***************************************************************************)
EXTENDS Integers, Sequences, FiniteSets, TLC

\* ------------------------------------------------------------------ bounds
MaxMtime  == 2      \* modification times on disk are 0..MaxMtime (milliseconds)
MaxClock  == 1      \* values of new Date().getTime() are 0..MaxClock
MaxEvents == 2      \* number of watcher / disk / wipe events in one behaviour

\* --------------------------------------------------------------- constants
MsPerSecond == 2    \* Date.toString() drops the milliseconds (scaled down)

WatchPath == "/music"
FileA     == <<WatchPath, "a.mp3">>
FileB     == <<WatchPath, "b.mp3">>
Paths     == {FileA, FileB}           \* the files under the watch root
Missing   == -1                      \* disk[p] when the file does not exist
Null      == [null |-> TRUE]         \* tagData = null
NoFile    == [absent |-> TRUE]       \* a file that is not on disk
Corrupt   == [corrupt |-> TRUE]      \* a loki.json without the collection

\* tag.tags as delivered by jsmediatags; "" stands for an undefined field
TagSets ==
    { [title |-> "Song", album |-> "Record", artist |-> a, track |-> "1"]
        : a \in {"Band", ""} }

\* outcomes of _readID3Tag: resolved with a tag of some type, or rejected
ReadOutcomes ==
    { [res |-> "ok", type |-> t, tags |-> g] : t \in {"ID3", "MP4", "APE"}, g \in TagSets }
        \cup { [res |-> "fail", type |-> e] : e \in {"tagfail", "xhr"} }

VARIABLES
    files,          \* _fileWatcher.files: its keys, in insertion order
    wdirty,         \* _fileWatcher.dirty
    disk,           \* path -> modification time, or Missing
    events,         \* number of environment events so far
    now,            \* the clock read by new Date().getTime()
    started,        \* start() has run
    console,        \* lines written with console.log
    table,          \* _fileTable: path -> document
    lokiFile,       \* loki.json as last saved
    artifact,       \* the xml index on disk
    status,         \* the json status file on disk
    log,            \* output.log: sequence of lines
    event,          \* last of the start / progress / done callbacks
    rejected,       \* async function of the current run whose promise rejected last
    pc,             \* position of the pipeline
    busy,           \* _busy
    errorsOccurred, \* _errorsOccurred
    processedCount, \* _processedCount
    toProcessCount, \* _toProcessCount
    fileKeys,       \* _fileKeys
    fileStats,      \* local of the per-file step: mtime string, 0 when undefined
    insert,         \* local of the per-file step
    dirtyRecs,      \* local of _finishHandlingChanges: files of the dirty documents
    allProperties,  \* local of _finishHandlingChanges
    xml,            \* local of _finishHandlingChanges
    wpc,            \* position of wipe()
    quietRuns       \* history: runs started since the last watcher, disk or wipe
                    \* event and the last finalization that threw (counted to 2)

vars == <<files, wdirty, disk, events, now, started, console, table, lokiFile,
          artifact, status, log, event, rejected, pc, busy, errorsOccurred,
          processedCount, toProcessCount, fileKeys, fileStats, insert,
          dirtyRecs, allProperties, xml, wpc, quietRuns>>

envVars   == <<files, wdirty, disk, events, now>>
storeVars == <<table, lokiFile>>
outVars   == <<artifact, status, log>>
runVars   == <<busy, errorsOccurred, processedCount, toProcessCount, fileKeys>>
fileLocals == <<fileStats, insert>>
finLocals == <<dirtyRecs, allProperties, xml>>

\* ----------------------------------------------------------------- helpers
Range(s) == {s[i] : i \in 1..Len(s)}

RECURSIVE Without(_, _)
Without(s, x) ==
    IF s = <<>> THEN <<>>
    ELSE IF Head(s) = x THEN Without(Tail(s), x)
    ELSE <<Head(s)>> \o Without(Tail(s), x)

\* fs.Stats.mtime.toString(): a date string with a resolution of one second;
\* never the empty string, which is 0 here
MtimeString(m) == (m \div MsPerSecond) + 1

\* pathHelper.toUnixPath(file).replace(watchPath, '/')
ClippedPath(file) == <<"/">> \o Tail(file)

\* istagValid.js
isTagValid(tagData) ==
    /\ tagData.name # ""
    /\ tagData.album # ""
    /\ tagData.artist # ""
    /\ tagData.clippedPath # <<>>

Put(t, k, v) == [x \in (DOMAIN t) \cup {k} |-> IF x = k THEN v ELSE t[x]]

EmptyTable == [p \in {} |-> Null]

\* the collection of a loki.json written by an earlier session that indexed
\* FileA with the modification time it still has
SavedTable ==
    [p \in {FileA} |->
        [file |-> p, dirty |-> FALSE, mtime |-> MtimeString(0),
         tagData |-> [name |-> "Song", album |-> "Record", track |-> "1",
                      artist |-> "Band", clippedPath |-> ClippedPath(p)],
         isValid |-> TRUE]]

Line(file, msg) == [file |-> file, msg |-> msg]

\* -------------------------------------------------------------------- Init
\* the state after the constructor: nothing loaded, no interval running;
\* loki.json is absent, corrupt, or left by an earlier session
Init ==
    /\ files = <<>>
    /\ wdirty = FALSE
    /\ disk = [p \in Paths |-> 0]
    /\ events = 0
    /\ now = 0
    /\ started = FALSE
    /\ console = <<>>
    /\ table = EmptyTable
    /\ lokiFile \in {NoFile, Corrupt, [fileData |-> SavedTable]}
    /\ artifact = NoFile
    /\ status = NoFile
    /\ log = <<>>
    /\ event = "none"
    /\ rejected = "none"
    /\ pc = "idle"
    /\ busy = FALSE
    /\ errorsOccurred = FALSE
    /\ processedCount = 0
    /\ toProcessCount = 0
    /\ fileKeys = <<>>
    /\ fileStats = 0
    /\ insert = FALSE
    /\ dirtyRecs = {}
    /\ allProperties = <<>>
    /\ xml = NoFile
    /\ wpc = "idle"
    /\ quietRuns = 0

\* ------------------------------------------------------------- environment
\* the watcher sights a file
WatcherAdd(p) ==
    /\ events < MaxEvents
    /\ p \notin Range(files)
    /\ files' = Append(files, p)
    /\ wdirty' = TRUE
    /\ events' = events + 1
    /\ quietRuns' = 0
    /\ UNCHANGED <<disk, now, started, console, storeVars, outVars, event, rejected, pc,
                   runVars, fileLocals, finLocals, wpc>>

\* the watcher drops a file
WatcherRemove(p) ==
    /\ events < MaxEvents
    /\ p \in Range(files)
    /\ files' = Without(files, p)
    /\ wdirty' = TRUE
    /\ events' = events + 1
    /\ quietRuns' = 0
    /\ UNCHANGED <<disk, now, started, console, storeVars, outVars, event, rejected, pc,
                   runVars, fileLocals, finLocals, wpc>>

\* the watcher raises its dirty flag without a change of its file set
WatcherSignal ==
    /\ events < MaxEvents
    /\ ~wdirty
    /\ wdirty' = TRUE
    /\ events' = events + 1
    /\ UNCHANGED <<files, disk, now, started, console, storeVars, outVars, event,
                   rejected, pc, runVars, fileLocals, finLocals, wpc, quietRuns>>

\* a file is written (created or modified) with modification time m
DiskWrite(p, m) ==
    /\ events < MaxEvents
    /\ disk[p] # m
    /\ disk' = [disk EXCEPT ![p] = m]
    /\ events' = events + 1
    /\ quietRuns' = 0
    /\ UNCHANGED <<files, wdirty, now, started, console, storeVars, outVars, event,
                   rejected, pc, runVars, fileLocals, finLocals, wpc>>

\* a file is deleted from disk
DiskDelete(p) ==
    /\ events < MaxEvents
    /\ disk[p] # Missing
    /\ disk' = [disk EXCEPT ![p] = Missing]
    /\ events' = events + 1
    /\ quietRuns' = 0
    /\ UNCHANGED <<files, wdirty, now, started, console, storeVars, outVars, event,
                   rejected, pc, runVars, fileLocals, finLocals, wpc>>

\* time passes
ClockAdvance ==
    /\ now < MaxClock
    /\ now' = now + 1
    /\ UNCHANGED <<files, wdirty, disk, events, started, console, storeVars, outVars,
                   event, rejected, pc, runVars, fileLocals, finLocals, wpc,
                   quietRuns>>

\* ------------------------------------------------------------------ start()
\* _loadLokiFromFile without fs.remove(this._lokijsPath)
LoadLokiKeepFile ==
    IF "fileData" \in DOMAIN lokiFile
    THEN /\ table' = lokiFile.fileData
         /\ lokiFile' = lokiFile
         /\ console' = console
    ELSE /\ table' = EmptyTable
         /\ lokiFile' = lokiFile
         /\ console' = Append(console, "loki file corrupt, resetting")

\* _loadLokiFromFile: the collection of the file, or a reset when it has none
LoadLokiFromFile ==
    IF "fileData" \in DOMAIN lokiFile
    THEN /\ table' = lokiFile.fileData
         /\ lokiFile' = lokiFile
         /\ console' = console
    ELSE /\ table' = EmptyTable
         /\ lokiFile' = NoFile
         /\ console' = Append(console, "loki file corrupt, resetting")

Start ==
    /\ ~started
    /\ started' = TRUE
    /\ IF lokiFile # NoFile
       THEN LoadLokiFromFile
       ELSE table' = EmptyTable /\ lokiFile' = lokiFile /\ console' = console
    /\ UNCHANGED <<envVars, outVars, event, rejected, pc, runVars, fileLocals,
                   finLocals, wpc, quietRuns>>

\* ------------------------------------------------- _startHandlingFileChanges
\* the guard without the test of _busy
CanStartUnguarded == wdirty

\* lines 123-127: the tick goes on only with the signal set and no run active
CanStart == wdirty /\ ~busy

\* one tick of the interval, up to the await of fs.outputFile(logPath, '')
StartHandlingFileChanges ==
    /\ started
    /\ IF CanStart
       THEN /\ wdirty' = FALSE
            /\ busy' = TRUE
            /\ errorsOccurred' = FALSE
            /\ event' = "start"
            /\ rejected' = "none"
            /\ pc' = "clearLog"
            /\ quietRuns' = IF quietRuns < 2 THEN quietRuns + 1 ELSE 2
            /\ UNCHANGED <<files, disk, events, now, started, console, storeVars,
                           outVars, processedCount, toProcessCount, fileKeys,
                           fileLocals, finLocals, wpc>>
       ELSE UNCHANGED vars

\* lines 139-144 with the count reset to 0 instead of -1
ClearLogDoneFromZero ==
    /\ pc = "clearLog"
    /\ log' = <<>>
    /\ processedCount' = 0
    /\ fileKeys' = files
    /\ toProcessCount' = Len(files)
    /\ pc' = "next"
    /\ UNCHANGED <<envVars, started, console, storeVars, artifact, status, event,
                   rejected, busy, errorsOccurred, fileLocals, finLocals, wpc,
                   quietRuns>>

\* fs.outputFile(logPath, '') resolved: the snapshot is taken and the first
\* per-file step is scheduled
ClearLogDone ==
    /\ pc = "clearLog"
    /\ log' = <<>>
    /\ processedCount' = -1
    /\ fileKeys' = files
    /\ toProcessCount' = Len(files)
    /\ pc' = "next"
    /\ UNCHANGED <<envVars, started, console, storeVars, artifact, status, event,
                   rejected, busy, errorsOccurred, fileLocals, finLocals, wpc,
                   quietRuns>>

\* fs.outputFile(logPath, '') rejected: the promise of the tick rejects and
\* nothing is scheduled
ClearLogFailed ==
    /\ pc = "clearLog"
    /\ rejected' = "start"
    /\ pc' = "idle"
    /\ UNCHANGED <<envVars, started, console, storeVars, outVars, event, runVars,
                   fileLocals, finLocals, wpc, quietRuns>>


\* ----------------------------------------------------------- _handleNextFile
\* var file = this._fileKeys[this._processedCount]
CurrentFile == fileKeys[processedCount + 1]

\* the call of _handleNextFile placed after the try statement, where an
\* exception that leaves the catch block skips it
ScheduleNextAfterTry ==
    /\ pc' = IF rejected' = "file" THEN "idle" ELSE "next"
    /\ fileStats' = 0
    /\ insert' = FALSE

\* finally { this._handleNextFile() }: the next setImmediate is scheduled
ScheduleNext ==
    /\ pc' = "next"
    /\ fileStats' = 0
    /\ insert' = FALSE

\* the setImmediate callback, for a count that leaves files to process:
\* up to the await of fs.pathExists(file)
HandleNextFile ==
    /\ pc = "next"
    /\ processedCount + 1 < toProcessCount
    /\ processedCount' = processedCount + 1
    /\ pc' = "pathExists"
    /\ UNCHANGED <<envVars, started, console, storeVars, outVars, event, rejected, busy,
                   errorsOccurred, toProcessCount, fileKeys, fileLocals,
                   finLocals, wpc, quietRuns>>

\* fs.pathExists(file) resolves with what the disk holds at that moment
PathExistsDone ==
    /\ pc = "pathExists"
    /\ pc' = IF disk[CurrentFile] = Missing THEN "gone" ELSE "found"
    /\ UNCHANGED <<envVars, started, console, storeVars, outVars, event, rejected,
                   runVars, fileLocals, finLocals, wpc, quietRuns>>

\* the catch block (lines 214-234) for the document fileCachedData:
\* defined says whether fileCachedData is an object, ins is the local insert,
\* stats the local fileStats
CatchBlock(file, defined, ins, stats, msg) ==
    IF defined /\ (ins <=> file \notin DOMAIN table)
    THEN /\ table' = Put(table, file,
                IF ins
                THEN [file |-> file, dirty |-> FALSE, mtime |-> stats, tagData |-> Null]
                ELSE [table[file] EXCEPT !.dirty = FALSE, !.mtime = stats, !.tagData = Null])
         /\ log' = Append(log, Line(file, msg))
         /\ errorsOccurred' = TRUE
         /\ UNCHANGED rejected
    ELSE \* TypeError on undefined.dirty, or insert / update throws: the
         \* exception leaves the callback
         /\ rejected' = "file"
         /\ UNCHANGED <<table, log, errorsOccurred>>

\* fileStats.mtime === fileCachedData.mtime, without toString(): a Date
\* object is never identical to a string
FileUnchangedNoString(file) == disk[file] # disk[file]

\* line 176: fileStats.mtime.toString() === fileCachedData.mtime
FileUnchanged(file) == MtimeString(disk[file]) = table[file].mtime

\* the file is gone: this._fileWatcher.remove(file), which may throw
FileGone ==
    /\ pc = "gone"
    /\ \/ /\ files' = Without(files, CurrentFile)
          /\ \E d \in {wdirty, TRUE} : wdirty' = d
          /\ UNCHANGED <<table, log, errorsOccurred, rejected>>
       \/ /\ CatchBlock(CurrentFile, FALSE, FALSE, 0, "could not be read")
          /\ UNCHANGED <<files, wdirty>>
    /\ ScheduleNext
    /\ UNCHANGED <<disk, events, now, started, console, lokiFile, artifact, status,
                   event, busy, processedCount, toProcessCount, fileKeys,
                   finLocals, wpc, quietRuns>>

\* the file exists: lines 169-186, up to the await of _readID3Tag(file)
FileFound ==
    /\ pc = "found"
    /\ LET file == CurrentFile IN
       IF file \in DOMAIN table
       THEN IF disk[file] = Missing
            THEN \* fs.statSync throws
                 /\ CatchBlock(file, TRUE, FALSE, 0, "could not be read")
                 /\ ScheduleNext
            ELSE IF FileUnchanged(file)
            THEN \* unchanged since the last update
                 /\ UNCHANGED <<table, log, errorsOccurred, rejected>>
                 /\ ScheduleNext
            ELSE /\ fileStats' = MtimeString(disk[file])
                 /\ insert' = FALSE
                 /\ pc' = "readTag"
                 /\ UNCHANGED <<table, log, errorsOccurred, rejected>>
       ELSE /\ fileStats' = 0
            /\ insert' = TRUE
            /\ pc' = "readTag"
            /\ UNCHANGED <<table, log, errorsOccurred, rejected>>
    /\ UNCHANGED <<envVars, started, console, lokiFile, artifact, status, event, busy,
                   processedCount, toProcessCount, fileKeys, finLocals, wpc,
                   quietRuns>>

\* lines 195-201
TagData(file, tags) ==
    [name |-> tags.title, album |-> tags.album, track |-> tags.track,
     artist |-> tags.artist, clippedPath |-> ClippedPath(file)]

\* lines 193-202
TaggedRecord(file, stats, tags) ==
    [file |-> file, dirty |-> TRUE, mtime |-> stats,
     tagData |-> TagData(file, tags),
     isValid |-> isTagValid(TagData(file, tags))]

\* tag.type === 'ID3' || tag.type === 'MP4'
Eligible(type) == type \in {"ID3", "MP4"}

FailMessage(type) ==
    IF type = "tagfail" THEN "tag read fail" ELSE "could not be read"

\* _readID3Tag(file) settles: lines 188-237
ReadTagDone ==
    /\ pc = "readTag"
    /\ \E out \in ReadOutcomes :
        LET file == CurrentFile IN
        IF out.res = "ok"
        THEN IF Eligible(out.type)
             THEN /\ event' = "progress"
                  /\ IF insert <=> file \notin DOMAIN table
                     THEN /\ table' = Put(table, file,
                                          TaggedRecord(file, fileStats, out.tags))
                          /\ UNCHANGED <<log, errorsOccurred, rejected>>
                     ELSE \* insert / update throws
                          CatchBlock(file, TRUE, insert, fileStats, "could not be read")
             ELSE UNCHANGED <<table, log, errorsOccurred, rejected, event>>
        ELSE /\ CatchBlock(file, TRUE, insert, fileStats, FailMessage(out.type))
             /\ UNCHANGED event
    /\ ScheduleNext
    /\ UNCHANGED <<envVars, started, console, lokiFile, artifact, status, busy,
                   processedCount, toProcessCount, fileKeys, finLocals, wpc,
                   quietRuns>>


\* ---------------------------------------------------- _finishHandlingChanges
\* this._fileTable.find({}), without the filter on dirty
AllFiles(t) == DOMAIN t

\* this._fileTable.find({dirty : true}), as the set of the files found
DirtyFiles(t) == {p \in DOMAIN t : t[p].dirty}

\* the loop writing items of the dirty documents only
RECURSIVE BuildDirtyItems(_, _)
BuildDirtyItems(props, t) ==
    IF props = <<>> THEN <<>>
    ELSE LET f == Head(props)
             rest == BuildDirtyItems(Tail(props), t)
         IN IF f \notin DOMAIN t THEN rest
            ELSE IF t[f].tagData = Null THEN rest
            ELSE IF ~isTagValid(t[f].tagData) THEN rest
            ELSE IF ~t[f].dirty THEN rest
            ELSE <<[album |-> t[f].tagData.album, artist |-> t[f].tagData.artist,
                    name |-> t[f].tagData.name, path |-> t[f].tagData.clippedPath]>>
                 \o rest

\* the loop of lines 273-303: the item elements written
RECURSIVE BuildItems(_, _)
BuildItems(props, t) ==
    IF props = <<>> THEN <<>>
    ELSE LET f == Head(props)
             rest == BuildItems(Tail(props), t)
         IN IF f \notin DOMAIN t THEN rest
            ELSE IF t[f].tagData = Null THEN rest
            ELSE IF ~isTagValid(t[f].tagData) THEN rest
            ELSE <<[album |-> t[f].tagData.album, artist |-> t[f].tagData.artist,
                    name |-> t[f].tagData.name, path |-> t[f].tagData.clippedPath]>>
                 \o rest

\* the loop of lines 273-303: the lines written to the log
RECURSIVE BuildLog(_, _)
BuildLog(props, t) ==
    IF props = <<>> THEN <<>>
    ELSE LET f == Head(props)
             rest == BuildLog(Tail(props), t)
         IN IF f \notin DOMAIN t THEN rest
            ELSE IF t[f].tagData = Null
                 THEN <<Line(f, "has no tag data")>> \o rest
            ELSE IF ~isTagValid(t[f].tagData)
                 THEN <<Line(t[f].tagData.clippedPath, "isn't properly tagged")>> \o rest
            ELSE rest

\* the loop without this._errorsOccurred = true
BuildNoErrors(props, t) == FALSE

\* the loop of lines 273-303: whether it sets _errorsOccurred
BuildErrors(props, t) ==
    \E i \in 1..Len(props) :
        /\ props[i] \in DOMAIN t
        /\ t[props[i]].tagData # Null
        /\ ~isTagValid(t[props[i]].tagData)

\* the finally block without this._busy = false
DoneWithoutClear ==
    /\ event' = "done"
    /\ busy' = busy
    /\ pc' = "idle"
    /\ dirtyRecs' = {}
    /\ allProperties' = <<>>
    /\ xml' = NoFile

\* finally { _onIndexingDone(); this._busy = false }
FinallyDone ==
    /\ event' = "done"
    /\ busy' = FALSE
    /\ pc' = "idle"
    /\ dirtyRecs' = {}
    /\ allProperties' = <<>>
    /\ xml' = NoFile

\* the setImmediate callback, for a count that has reached the snapshot's
\* length: _finishHandlingChanges up to its return (nothing dirty) or to the
\* await of fs.outputFile(indexPath, xml)
FinishHandlingChanges ==
    /\ pc = "next"
    /\ processedCount + 1 >= toProcessCount
    /\ processedCount' = processedCount + 1
    /\ lokiFile' = [fileData |-> table]
    /\ IF DirtyFiles(table) = {}
       THEN /\ FinallyDone
            /\ UNCHANGED <<log, errorsOccurred>>
       ELSE /\ dirtyRecs' = DirtyFiles(table)
            /\ allProperties' = files
            /\ xml' = [date |-> now, items |-> BuildItems(files, table)]
            /\ log' = log \o BuildLog(files, table)
            /\ errorsOccurred' = (errorsOccurred \/ BuildErrors(files, table))
            /\ pc' = "writeIndex"
            /\ UNCHANGED <<event, busy>>
    /\ UNCHANGED <<envVars, started, console, table, artifact, status, rejected,
                   toProcessCount, fileKeys, fileLocals, wpc, quietRuns>>

\* the orphans removed, the dirty documents left as they are
ReapOnly(t, dirtyFound, props) ==
    [p \in {q \in DOMAIN t : q \in Range(props)} |-> t[p]]

\* lines 322-335 on table t: dirty cleared on the documents found dirty,
\* documents whose file is not in allProperties removed
CleanAndReap(t, dirtyFound, props) ==
    [p \in {q \in DOMAIN t : q \in Range(props)} |->
        IF p \in dirtyFound THEN [t[p] EXCEPT !.dirty = FALSE] ELSE t[p]]

\* fs.outputFile(indexPath, xml) resolved: lines 313-343
IndexWritten ==
    /\ pc = "writeIndex"
    /\ artifact' = xml
    /\ \/ \* jsonfile.writeFileSync throws
          /\ UNCHANGED <<status, table, lokiFile>>
          /\ rejected' = "finish"
          /\ quietRuns' = 0
       \/ /\ status' = [date |-> now]
          /\ IF dirtyRecs \subseteq DOMAIN table
             THEN /\ table' = CleanAndReap(table, dirtyRecs, allProperties)
                  /\ lokiFile' = [fileData |-> table']
                  /\ UNCHANGED <<rejected, quietRuns>>
             ELSE \* update of a document that is no longer in the collection
                  /\ UNCHANGED <<table, lokiFile>>
                  /\ rejected' = "finish"
                  /\ quietRuns' = 0
    /\ FinallyDone
    /\ UNCHANGED <<envVars, started, console, log, errorsOccurred, processedCount,
                   toProcessCount, fileKeys, fileLocals, wpc>>

\* fs.outputFile(indexPath, xml) rejected
IndexWriteFailed ==
    /\ pc = "writeIndex"
    /\ rejected' = "finish"
    /\ quietRuns' = 0
    /\ FinallyDone
    /\ UNCHANGED <<envVars, started, console, storeVars, outVars, errorsOccurred,
                   processedCount, toProcessCount, fileKeys, fileLocals, wpc>>

\* -------------------------------------------------------------------- wipe()
\* the call, up to the await of the first fs.remove
Wipe ==
    /\ started
    /\ events < MaxEvents
    /\ wpc = "idle"
    /\ wpc' = "removeIndex"
    /\ events' = events + 1
    /\ quietRuns' = 0
    /\ UNCHANGED <<files, wdirty, disk, now, started, console, storeVars, outVars, event,
                   rejected, pc, runVars, fileLocals, finLocals>>

\* the index is removed, up to the await of the second fs.remove
WipeIndexRemoved ==
    /\ wpc = "removeIndex"
    /\ artifact' = NoFile
    /\ wpc' = "removeStatus"
    /\ UNCHANGED <<envVars, started, console, storeVars, status, log, event, rejected,
                   pc, runVars, fileLocals, finLocals, quietRuns>>

\* the status file is removed, the collection cleared and saved
WipeStatusRemoved ==
    /\ wpc = "removeStatus"
    /\ status' = NoFile
    /\ table' = EmptyTable
    /\ lokiFile' = [fileData |-> EmptyTable]
    /\ wpc' = "idle"
    /\ UNCHANGED <<envVars, started, console, artifact, log, event, rejected, pc,
                   runVars, fileLocals, finLocals, quietRuns>>

\* --------------------------------------------------------------------- Next
Next ==
    \/ \E p \in Paths : WatcherAdd(p)
    \/ \E p \in Paths : WatcherRemove(p)
    \/ WatcherSignal
    \/ \E p \in Paths : \E m \in 0..MaxMtime : DiskWrite(p, m)
    \/ \E p \in Paths : DiskDelete(p)
    \/ ClockAdvance
    \/ Start
    \/ StartHandlingFileChanges
    \/ ClearLogDone
    \/ ClearLogFailed
    \/ HandleNextFile
    \/ PathExistsDone
    \/ FileGone
    \/ FileFound
    \/ ReadTagDone
    \/ FinishHandlingChanges
    \/ IndexWritten
    \/ IndexWriteFailed
    \/ Wipe
    \/ WipeIndexRemoved
    \/ WipeStatusRemoved

Spec == Init /\ [][Next]_vars

\* the interval ticks for ever, every scheduled setImmediate callback runs and
\* every awaited file operation or tag read settles
FairSpec ==
    /\ Spec
    /\ WF_vars(Start)
    /\ WF_vars(StartHandlingFileChanges)
    /\ WF_vars(ClearLogDone \/ ClearLogFailed)
    /\ WF_vars(HandleNextFile)
    /\ WF_vars(PathExistsDone)
    /\ WF_vars(FileGone)
    /\ WF_vars(FileFound)
    /\ WF_vars(ReadTagDone)
    /\ WF_vars(FinishHandlingChanges)
    /\ WF_vars(IndexWritten \/ IndexWriteFailed)

TypeOK ==
    /\ Range(files) \subseteq Paths
    /\ pc \in {"idle", "clearLog", "next", "pathExists", "gone", "found",
               "readTag", "writeIndex"}
    /\ DOMAIN table \subseteq Paths
    /\ processedCount \in -1..(Cardinality(Paths) + 1)

\* ------------------------------------------------------------------- claims

\* C1: a tick that arrives while the busy guard is set changes nothing (no
\* new run, no change of the snapshot, the counters or the dirty signal), and
\* a run is only ever started from Idle with the guard clear, which the start
\* then sets.
C1_BusyTickIsNoOp ==
    [][ /\ (busy /\ StartHandlingFileChanges) => UNCHANGED vars
        /\ (pc' = "clearLog" /\ pc # "clearLog") =>
               (pc = "idle" /\ ~busy /\ busy') ]_vars

\* a run is scanning or finalizing, and the dirty signal is set again: the
\* next tick finds the guard set
C1_Witness ==
    /\ busy /\ wdirty /\ started
    /\ pc \in {"readTag", "writeIndex"}

\* C2: whatever the outcome of a per-file step (also an exception that
\* leaves the catch block), the step ends by scheduling the next one with the
\* snapshot and the counters untouched; the scheduled callback takes the next
\* path of the snapshot, or enters finalization once the snapshot is used up.
C2_NoFileAbortsRun ==
    [][ /\ pc \in {"pathExists", "gone", "found", "readTag"} =>
              /\ pc' \in {"pathExists", "gone", "found", "readTag", "next"}
              /\ processedCount' = processedCount
              /\ toProcessCount' = toProcessCount
              /\ fileKeys' = fileKeys
              /\ busy'
        /\ (pc = "next" /\ pc' # "next") =>
              /\ processedCount' = processedCount + 1
              /\ IF processedCount' < toProcessCount
                 THEN pc' = "pathExists" /\ busy'
                 ELSE /\ pc' \in {"writeIndex", "idle"}
                      /\ lokiFile' = [fileData |-> table] ]_vars

\* an exception has left the catch block of a per-file step of this run, and
\* the next callback is scheduled
C2_Witness ==
    /\ rejected = "file"
    /\ pc = "next"
    /\ busy

\* C3: a run started after a run that completed without an exception in
\* finalization, with no change of the watcher's file set or of the disk and
\* no wipe since that earlier run started, invokes the tag reader for no file
\* whose tag data the cache holds (so that it marks no record dirty and
\* rebuilds nothing).
C3_NoOpRunReadsNoTag ==
    (quietRuns = 2 /\ busy /\ pc = "readTag") =>
        ~(CurrentFile \in DOMAIN table /\ table[CurrentFile].tagData # Null)

\* C4: the per-file step of a path whose cached mtime string equals the mtime
\* string of the file on disk does not invoke the tag reader and leaves the
\* cache as it is.
C4_Incrementality ==
    [][ ( /\ pc = "found"
          /\ pc' # pc
          /\ CurrentFile \in DOMAIN table
          /\ disk[CurrentFile] # Missing
          /\ MtimeString(disk[CurrentFile]) = table[CurrentFile].mtime )
        => (pc' = "next" /\ table' = table /\ log' = log) ]_vars

\* the first path of a run has a cached record with tag data whose mtime
\* string is the one on disk, and its step has ended without a tag read
C4_Witness ==
    /\ pc = "next" /\ processedCount = 0 /\ toProcessCount > 0
    /\ event = "start" /\ log = <<>> /\ rejected = "none"
    /\ fileKeys[1] \in DOMAIN table
    /\ disk[fileKeys[1]] # Missing
    /\ table[fileKeys[1]].tagData # Null
    /\ table[fileKeys[1]].mtime = MtimeString(disk[fileKeys[1]])

\* C5: when finalization finds a dirty record, the document it builds has
\* exactly one item for each path of the watcher's file set whose cached
\* record has valid tag data, and no other item; that document is what the
\* index write puts on disk.
C5_FullSnapshotRebuild ==
    [][ /\ (pc = "next" /\ pc' = "writeIndex") =>
              LET listed == {p \in Range(files) :
                                /\ p \in DOMAIN table
                                /\ table[p].tagData # Null
                                /\ isTagValid(table[p].tagData)}
                  items == xml'.items
              IN /\ Len(items) = Cardinality(listed)
                 /\ {items[i].path : i \in 1..Len(items)}
                        = {ClippedPath(p) : p \in listed}
                 /\ \A i \in 1..Len(items) : \E p \in listed :
                        /\ items[i].path = ClippedPath(p)
                        /\ items[i].name = table[p].tagData.name
                        /\ items[i].artist = table[p].tagData.artist
                        /\ items[i].album = table[p].tagData.album
        /\ (pc = "writeIndex" /\ pc' = "idle") => artifact' \in {xml, artifact}
      ]_vars

\* a rebuild lists a path whose record was not dirty in the triggering run
C5_Witness ==
    /\ pc = "writeIndex"
    /\ \E p \in Range(allProperties) :
          /\ p \notin dirtyRecs
          /\ \E i \in 1..Len(xml.items) : xml.items[i].path = ClippedPath(p)

\* C6: when a run completes that started after the last change of the
\* watcher's file set, every path that was in the set neither at the snapshot
\* nor at completion has no cache record and is not listed in the index.
C6_OrphanPruning ==
    [][ (busy /\ ~busy' /\ quietRuns >= 1) =>
          \A p \in Paths :
             (p \notin Range(fileKeys) /\ p \notin Range(files')) =>
                /\ p \notin DOMAIN table'
                /\ (artifact' # NoFile =>
                      \A i \in 1..Len(artifact'.items) :
                          artifact'.items[i].path # ClippedPath(p)) ]_vars

\* C7 as amended: when finalization completes a rebuild and returns to Idle,
\* no record is dirty, and every record found dirty was written into the
\* index, or left out of it because its tag data fails validation, or reaped.
C7_DirtyCleared ==
    [][ (pc = "writeIndex" /\ pc' = "idle" /\ rejected' # "finish") =>
          /\ DirtyFiles(table') = {}
          /\ \A p \in dirtyRecs :
                \/ p \notin DOMAIN table'
                \/ ~isTagValid(table'[p].tagData)
                \/ \E i \in 1..Len(artifact'.items) :
                       artifact'.items[i].path = ClippedPath(p) ]_vars

\* C7 as stated: every record found dirty was written into the index or
\* reaped.
C7_DirtyWrittenOrReaped ==
    [][ (pc = "writeIndex" /\ pc' = "idle" /\ rejected' # "finish") =>
          /\ DirtyFiles(table') = {}
          /\ \A p \in dirtyRecs :
                \/ p \notin DOMAIN table'
                \/ \E i \in 1..Len(artifact'.items) :
                       artifact'.items[i].path = ClippedPath(p) ]_vars

\* a rebuild has completed whose dirty records were a valid one, now listed,
\* and the pipeline is Idle with no dirty record
C7_Witness ==
    /\ pc = "idle" /\ ~busy /\ event = "done" /\ rejected = "none"
    /\ artifact # NoFile /\ status # NoFile
    /\ table # EmptyTable
    /\ DirtyFiles(table) = {}
    /\ Len(artifact.items) > 0

\* C8: every way finalization ends (nothing dirty, a completed rebuild, an
\* exception at any step) issues the run-complete notification and clears
\* the busy guard; the only other step of finalization is the one that waits
\* for the index write, with the guard still set.
C8_FinalizationReturnsToIdle ==
    [][ /\ (pc = "next" /\ processedCount + 1 >= toProcessCount /\ pc' # pc) =>
              \/ pc' = "writeIndex" /\ busy'
              \/ pc' = "idle" /\ ~busy' /\ event' = "done"
        /\ (pc = "writeIndex" /\ pc' # pc) =>
              (pc' = "idle" /\ ~busy' /\ event' = "done") ]_vars

\* finalization has thrown, and the pipeline is Idle with the guard clear
C8_Witness ==
    /\ rejected = "finish"
    /\ pc = "idle" /\ ~busy /\ event = "done"

\* C9: while the busy guard is set a step of the run is pending, so that the
\* run goes on to finalization, which clears the guard.
C9_StartedRunCompletes ==
    busy => pc # "idle"

\* C10: the date a rebuild writes to the status file is the date attribute
\* of the index it has written.
C10_StatusDateIsIndexDate ==
    [][ (pc = "writeIndex" /\ status' # status /\ status' # NoFile) =>
            status'.date = artifact'.date ]_vars

\* C11: a per-file step that leaves a record whose tag data lacks a required
\* field leaves it with isValid = FALSE; the document built by that run has no
\* item for such a record of a watched path, the log gets exactly one line
\* for it in that run, and the errors-occurred flag is set and stays set
\* until the run completes.
C11_ValidationExclusion ==
    [][ /\ (pc = "readTag" /\ pc' = "next" /\ CurrentFile \in DOMAIN table') =>
              LET r == table'[CurrentFile] IN
              (r.tagData # Null /\ ~isTagValid(r.tagData)) => (r.isValid = FALSE)
        /\ (pc = "next" /\ pc' = "writeIndex") =>
              \A p \in Range(files) :
                 ( /\ p \in DOMAIN table
                   /\ table[p].tagData # Null
                   /\ ~isTagValid(table[p].tagData) ) =>
                     /\ \A i \in 1..Len(xml'.items) :
                            xml'.items[i].path # ClippedPath(p)
                     /\ Cardinality({i \in 1..Len(log') :
                            log'[i].file \in {p, ClippedPath(p)}}) = 1
                     /\ errorsOccurred'
        /\ (pc = "writeIndex" /\ pc' = "idle") => errorsOccurred' = errorsOccurred
      ]_vars

\* the run that read a tag without artist for a watched path has built its
\* document: the record is cached as not valid, logged once and not listed
C11_Witness ==
    /\ pc = "writeIndex" /\ errorsOccurred
    /\ \E p \in Range(allProperties) \cap dirtyRecs :
          /\ p \in DOMAIN table
          /\ table[p].tagData # Null
          /\ table[p].tagData.artist = ""
          /\ ~table[p].isValid
          /\ xml.items = <<>>
          /\ log = <<Line(ClippedPath(p), "isn't properly tagged")>>

C13_IneligibleKindIsFailure ==
    [][ (pc = "readTag" /\ pc' = "next" /\ rejected' = "none") =>
          LET file == CurrentFile IN
          /\ file \in DOMAIN table'
          /\ \/ \E g \in TagSets :
                   table'[file] = TaggedRecord(file, fileStats, g)
             \/ /\ table'[file].tagData = Null
                /\ ~table'[file].dirty
                /\ Len(log') = Len(log) + 1
                /\ log'[Len(log')].file = file
                /\ errorsOccurred' ]_vars

\* C14: no per-file step removes a record, and the step of finalization that
\* reaps the orphans removes only records whose path is not in the watcher's
\* file set at that moment.
C14_ReapOnlyUnwatched ==
    [][ /\ (pc \in {"pathExists", "gone", "found", "readTag"} /\ pc' # pc) =>
              DOMAIN table \subseteq DOMAIN table'
        /\ (pc = "writeIndex" /\ pc' = "idle") =>
              \A p \in DOMAIN table :
                  p \notin DOMAIN table' => p \notin Range(files) ]_vars

\* C15: a per-file step that stores the tag data of an eligible tag leaves
\* the record of the path with dirty = TRUE, the extracted fields, isValid as
\* the validator gives it on them, and the modification time string of the
\* file on disk, whether or not the path had a record before.
C15_SuccessRecord ==
    [][ ( /\ pc = "readTag" /\ pc' = "next"
          /\ table' # table
          /\ table'[CurrentFile].dirty
          /\ disk[CurrentFile] # Missing ) =>
          LET r == table'[CurrentFile] IN
          /\ \E g \in TagSets : r.tagData = TagData(CurrentFile, g)
          /\ r.isValid = isTagValid(r.tagData)
          /\ r.mtime = MtimeString(disk[CurrentFile]) ]_vars

\* C16: every exception of a per-file step is handled by the step: none
\* leaves its catch block, and the step that handles one leaves a record for
\* the path with tag data absent and dirty = FALSE, one more line in the log,
\* for that path, and the errors-occurred flag set.
C16_FailureCachedLoggedFlagged ==
    [][ (pc \in {"gone", "found", "readTag"} /\ pc' = "next") =>
          LET file == CurrentFile IN
          /\ rejected = "none" => rejected' = "none"
          /\ log' # log =>
                /\ file \in DOMAIN table'
                /\ table'[file].tagData = Null
                /\ ~table'[file].dirty
                /\ \E msg \in {"tag read fail", "could not be read"} :
                       log' = Append(log, Line(file, msg))
                /\ errorsOccurred' ]_vars

\* C17: a run takes up the paths of its snapshot one by one in snapshot
\* order: the snapshot is taken with the count before the first path, each
\* callback that begins a step takes the path after the one of the step
\* before, a step keeps its path until it has scheduled the next callback,
\* the cache is not written by the pipeline between two steps, and
\* finalization is entered with every path of the snapshot taken up (also an
\* empty snapshot) and is not followed by another step of the same run.
C17_SequentialAndComplete ==
    [][ /\ (pc = "clearLog" /\ pc' = "next") =>
              /\ processedCount' = -1
              /\ fileKeys' = files
              /\ toProcessCount' = Len(fileKeys')
        /\ (pc = "next" /\ pc' = "pathExists") =>
              /\ processedCount' = processedCount + 1
              /\ processedCount' + 1 \in 1..Len(fileKeys)
              /\ fileKeys' = fileKeys
        /\ (pc \in {"pathExists", "gone", "found", "readTag"}) =>
              /\ processedCount' = processedCount
              /\ fileKeys' = fileKeys
              /\ pc' \in {"pathExists", "gone", "found", "readTag", "next"}
        /\ (pc \in {"next", "pathExists"} /\ table' # table) =>
              (wpc = "removeStatus" /\ wpc' = "idle")
        /\ (pc = "next" /\ pc' \in {"writeIndex", "idle"}) =>
              processedCount + 1 = Len(fileKeys)
        /\ (pc \in {"writeIndex", "idle"}) =>
              pc' \in {"writeIndex", "idle", "clearLog"} ]_vars

\* a run over a snapshot of two paths has completed, both taken up in turn
C17_Witness ==
    /\ pc = "idle" /\ ~busy /\ event = "done"
    /\ Len(fileKeys) = 2
    /\ processedCount = 2

\* C18: between the cache lookup of a per-file step and its upsert, and
\* between the dirty query of finalization and its dirty-clear and reap, the
\* cache is changed by nothing but that step of the pipeline, and the
\* documents finalization found dirty are still in the cache when it updates
\* them.
C18_CacheOwnedByRun ==
    [][ /\ (pc \in {"readTag", "writeIndex"} /\ table' # table) => pc' # pc
        /\ (pc = "writeIndex" /\ pc' = "idle" /\ status' # status) =>
              dirtyRecs \subseteq DOMAIN table ]_vars

\* C19: whenever the dirty signal is set, a tick later clears it and starts
\* a run, and every run that has cleared the signal goes on to take its
\* snapshot: a change that sets the signal while Idle, scanning or finalizing
\* is covered by the snapshot of the run started next, and one that sets it
\* between the clearing of the signal and the snapshot by that snapshot.
C19_NoSignalLost ==
    /\ wdirty ~> (pc = "clearLog")
    /\ (pc = "clearLog") ~> (pc = "next" /\ processedCount = -1)

\* C20: a per-file step that finds its file missing or unchanged, or whose
\* stat or tag read fails, marks no record dirty, removes no record and
\* writes neither the index nor the status file (a failed file's record has
\* its tag data set to absent); and finalization that finds no dirty record
\* returns to Idle with the index, the status file and the records of the
\* cache as they were.
C20_NoSuccessNoRewrite ==
    [][ /\ ( /\ pc \in {"gone", "found", "readTag"} /\ pc' = "next"
             /\ \/ pc \in {"gone", "found"}
                \/ log' # log ) =>
              /\ \A p \in DOMAIN table' :
                     table'[p].dirty => (p \in DOMAIN table /\ table[p].dirty)
              /\ DOMAIN table \subseteq DOMAIN table'
              /\ log' # log => table'[CurrentFile].tagData = Null
              /\ artifact' = artifact /\ status' = status
        /\ ( /\ pc = "next" /\ pc' \notin {"next", "pathExists"}
             /\ \A p \in DOMAIN table : ~table[p].dirty ) =>
              /\ pc' = "idle"
              /\ artifact' = artifact /\ status' = status
              /\ table' = table ]_vars

\* a run whose only tag read failed has returned to Idle: the record of the
\* file has no tag data, nothing is dirty, and the index written by the run
\* before still lists the file
C20_Witness ==
    /\ pc = "idle" /\ ~busy /\ event = "done" /\ rejected = "none"
    /\ errorsOccurred /\ Len(log) = 1
    /\ artifact # NoFile /\ status # NoFile
    /\ \A p \in DOMAIN table : ~table[p].dirty
    /\ \E p \in DOMAIN table :
          /\ table[p].tagData = Null
          /\ log[1].file = p
          /\ \E i \in 1..Len(artifact.items) :
                 artifact.items[i].path = ClippedPath(p)

====
